---- MODULE Spec2Model ----
(***************************************************************************)
(* OAuth2 authorization-code flow with PKCE, src/evesso/authorize.py.      *)
(* Text is modelled as sequences of one-character strings, bytes as        *)
(* sequences of integers in 0..255.                                        *)
(***************************************************************************)
EXTENDS Integers, Sequences, FiniteSets, TLC

(***************************************************************************)
(* Text helpers (Python str / bytes primitives used by the code)           *)
(***************************************************************************)

\* F(v), with v evaluated once and handed to F as a value
Bind(F(_), v) == CHOOSE r \in {F(x) : x \in {v}} : TRUE

\* s.find(c): index of the first occurrence of c in s, 0 when absent
Find(s, c) ==
    LET hits == {i \in 1..Len(s) : s[i] = c}
    IN  IF hits = {} THEN 0 ELSE CHOOSE i \in hits : \A j \in hits : i <= j

\* s[:i-1]
Before(s, i) == SubSeq(s, 1, i - 1)

\* s[i:]
After(s, i) == SubSeq(s, i + 1, Len(s))

\* needle in s
Contains(s, needle) ==
    Bind(LAMBDA n :
            \/ n = <<>>
            \/ \E i \in 1..(Len(s) - Len(n) + 1) :
                  s[i] = n[1] /\ SubSeq(s, i, i + Len(n) - 1) = n,
         needle)

\* s.replace(c, "")
Remove(s, c) == SelectSeq(s, LAMBDA x : x # c)

\* s.rstrip(c)
RStrip(s, c) ==
    LET keep == {i \in 1..Len(s) : s[i] # c}
    IN  IF keep = {} THEN <<>>
        ELSE SubSeq(s, 1, CHOOSE i \in keep : \A j \in keep : j <= i)

\* s.split(sep): the pieces of s between occurrences of sep
Split(s, sep) ==
    LET Pieces(cuts) ==
            LET starts  == {0} \cup cuts
                ends    == cuts \cup {Len(s) + 1}
                kth(k)  == CHOOSE p \in starts : Cardinality({q \in starts : q < p}) = k - 1
                endOf(p) == CHOOSE e \in ends : e > p /\ \A f \in ends : f > p => e <= f
            IN  [k \in 1..Cardinality(starts) |-> SubSeq(s, kth(k) + 1, endOf(kth(k)) - 1)]
    IN  Bind(Pieces, {i \in 1..Len(s) : s[i] = sep})

Alnum ==
    {"A", "B", "C", "D", "E", "F", "G", "H", "I", "J", "K", "L", "M",
     "N", "O", "P", "Q", "R", "S", "T", "U", "V", "W", "X", "Y", "Z",
     "a", "b", "c", "d", "e", "f", "g", "h", "i", "j", "k", "l", "m",
     "n", "o", "p", "q", "r", "s", "t", "u", "v", "w", "x", "y", "z",
     "0", "1", "2", "3", "4", "5", "6", "7", "8", "9"}

Digits == {"0", "1", "2", "3", "4", "5", "6", "7", "8", "9"}

(***************************************************************************)
(* base64.urlsafe_b64encode                                                *)
(***************************************************************************)

B64Alphabet ==
    <<"A", "B", "C", "D", "E", "F", "G", "H", "I", "J", "K", "L", "M",
      "N", "O", "P", "Q", "R", "S", "T", "U", "V", "W", "X", "Y", "Z",
      "a", "b", "c", "d", "e", "f", "g", "h", "i", "j", "k", "l", "m",
      "n", "o", "p", "q", "r", "s", "t", "u", "v", "w", "x", "y", "z",
      "0", "1", "2", "3", "4", "5", "6", "7", "8", "9", "-", "_">>

\* urlsafe_b64encode(b): every 3 bytes give 4 characters; a last group of
\* 1 or 2 bytes is filled with zero bits and closed with "==" or "="
urlsafe_b64encode(b) ==
    LET n == Len(b)
        byte(i) == IF i <= n THEN b[i] ELSE 0
        sextet(g, j) ==
            CASE j = 1 -> byte(g) \div 4
              [] j = 2 -> ((byte(g) % 4) * 16) + (byte(g + 1) \div 16)
              [] j = 3 -> ((byte(g + 1) % 16) * 4) + (byte(g + 2) \div 64)
              [] OTHER -> byte(g + 2) % 64
        char(k) ==
            LET g == (3 * ((k - 1) \div 4)) + 1
                j == ((k - 1) % 4) + 1
            IN  IF (j = 3 /\ g + 1 > n) \/ (j = 4 /\ g + 2 > n)
                THEN "="
                ELSE B64Alphabet[sextet(g, j) + 1]
    IN  [k \in 1..(4 * ((n + 2) \div 3)) |-> char(k)]

(***************************************************************************)
(* Randomness: the values secrets.token_bytes(32) is taken to return       *)
(***************************************************************************)

RandomA ==
    <<251, 32, 69, 106, 143, 180, 217, 254, 35, 72, 109, 146, 183, 220, 1, 38,
      75, 112, 149, 186, 223, 4, 41, 78, 115, 152, 189, 226, 7, 44, 81, 118>>

RandomB ==
    <<62, 80, 120, 182, 10, 116, 244, 138, 54, 248, 208, 190, 194, 220, 12, 82,
      174, 32, 168, 70, 250, 196, 164, 154, 166, 200, 0, 78, 178, 44, 188, 98>>

RandomC ==
    <<199, 217, 9, 117, 59, 121, 77, 213, 47, 121, 209, 85, 35, 89, 21, 117,
      151, 153, 153, 181, 11, 185, 221, 149, 255, 57, 97, 149, 243, 153, 165, 53>>

RandomBytes == {RandomA, RandomB, RandomC}

\* secrets.token_bytes(n): the outcomes of the random source with n bytes
token_bytes(n) == {b \in RandomBytes : Len(b) = n}

\* secrets.token_urlsafe(n): base64 text of n random bytes, padding removed
token_urlsafe(n) == {RStrip(urlsafe_b64encode(b), "=") : b \in token_bytes(n)}

\* default of generate_byte_string's length parameter, also the STATE size
DefaultLength == 32

\* generate_byte_string(length): base64 text of the random bytes, padding kept
generate_byte_string(length) == {urlsafe_b64encode(b) : b \in token_bytes(length)}

(***************************************************************************)
(* hashlib.sha256 of the verifiers of the model (true digests)             *)
(***************************************************************************)

sha256(m) ==
    CASE m = urlsafe_b64encode(RandomA) ->
           <<23, 255, 116, 100, 61, 86, 41, 29, 20, 8, 43, 35, 225, 82, 43, 245,
             62, 91, 197, 59, 122, 127, 36, 108, 149, 76, 14, 118, 168, 98, 13, 78>>
      [] m = urlsafe_b64encode(RandomB) ->
           <<57, 246, 219, 208, 125, 230, 37, 213, 124, 139, 133, 123, 202, 109, 177, 38,
             9, 52, 197, 153, 148, 214, 52, 130, 170, 248, 195, 229, 160, 153, 151, 112>>
      [] m = urlsafe_b64encode(RandomC) ->
           <<117, 235, 78, 238, 69, 33, 77, 213, 172, 201, 117, 3, 46, 29, 196, 10,
             114, 17, 245, 46, 229, 189, 27, 191, 120, 56, 112, 199, 165, 53, 141, 177>>

\* a challenge that keeps the padding of the encoded digest
generate_challenge_padded(verifier) == urlsafe_b64encode(sha256(verifier))

\* generate_challenge(verifier): base64 of the digest, every "=" removed
generate_challenge(verifier) == Remove(urlsafe_b64encode(sha256(verifier)), "=")

(***************************************************************************)
(* urllib.parse: quote_plus / urlencode / unquote / urlparse / parse_qs    *)
(***************************************************************************)

\* ord(c) in two upper-case hexadecimal digits, for the characters of the model
HexOf ==
    {<<" ", "2", "0">>, <<"#", "2", "3">>, <<"%", "2", "5">>, <<"&", "2", "6">>,
     <<"+", "2", "B">>, <<"/", "2", "F">>, <<":", "3", "A">>, <<"=", "3", "D">>,
     <<"?", "3", "F">>, <<"[", "5", "B">>, <<"]", "5", "D">>, <<"a", "6", "1">>}

\* characters quote() never escapes
AlwaysSafe == Alnum \cup {"_", ".", "-", "~"}

UpperHex(c) ==
    CASE c = "a" -> "A" [] c = "b" -> "B" [] c = "c" -> "C"
      [] c = "d" -> "D" [] c = "e" -> "E" [] c = "f" -> "F" [] OTHER -> c

\* quote_plus of one character: safe characters kept, space -> "+", the rest -> %XX
QuoteChar(c) ==
    IF c \in AlwaysSafe THEN <<c>>
    ELSE IF c = " " THEN <<"+">>
    ELSE LET t == CHOOSE t \in HexOf : t[1] = c IN <<"%", t[2], t[3]>>

RECURSIVE QuoteFrom(_, _)
QuoteFrom(s, i) ==
    IF i > Len(s) THEN <<>> ELSE QuoteChar(s[i]) \o QuoteFrom(s, i + 1)

\* quote_plus(s)
quote_plus(s) == Bind(LAMBDA v : QuoteFrom(v, 1), s)

RECURSIVE EncodeFrom(_, _)
EncodeFrom(query, i) ==
    LET item == quote_plus(query[i][1]) \o <<"=">> \o quote_plus(query[i][2])
    IN  IF i = Len(query) THEN item
        ELSE item \o <<"&">> \o EncodeFrom(query, i + 1)

RECURSIVE JoinFrom(_, _)
JoinFrom(query, i) ==
    LET item == query[i][1] \o <<"=">> \o query[i][2]
    IN  IF i = Len(query) THEN item
        ELSE item \o <<"&">> \o JoinFrom(query, i + 1)

\* an encoding that joins names and values as they are, nothing escaped
urlencode_unquoted(query) ==
    Bind(LAMBDA q : IF q = <<>> THEN <<>> ELSE JoinFrom(q, 1), query)

\* urlencode(query): query is the dict as a sequence of <<name, value>> items
urlencode(query) ==
    Bind(LAMBDA q : IF q = <<>> THEN <<>> ELSE EncodeFrom(q, 1), query)

IsEscape(s, i) ==
    /\ s[i] = "%"
    /\ i + 2 <= Len(s)
    /\ \E t \in HexOf : t[2] = UpperHex(s[i + 1]) /\ t[3] = UpperHex(s[i + 2])

RECURSIVE UnquoteFrom(_, _)
UnquoteFrom(s, i) ==
    IF i > Len(s) THEN <<>>
    ELSE IF IsEscape(s, i)
    THEN LET t == CHOOSE t \in HexOf :
                     t[2] = UpperHex(s[i + 1]) /\ t[3] = UpperHex(s[i + 2])
         IN  <<t[1]>> \o UnquoteFrom(s, i + 3)
    ELSE <<s[i]>> \o UnquoteFrom(s, i + 1)

\* unquote(s): every %XX with two hexadecimal digits decoded, the rest kept
unquote(s) == Bind(LAMBDA v : UnquoteFrom(v, 1), s)

\* s.replace("+", " ")
PlusToSpace(s) == [i \in 1..Len(s) |-> IF s[i] = "+" THEN " " ELSE s[i]]

SchemeChars == Alnum \cup {"+", "-", "."}

\* urlsplit, step 1: a leading scheme and its colon are taken off
SplitScheme(url) ==
    LET colon == Find(url, ":")
    IN  IF /\ colon > 1
           /\ url[1] \in Alnum \ Digits
           /\ \A i \in 1..(colon - 1) : url[i] \in SchemeChars
        THEN [scheme |-> Before(url, colon), rest |-> After(url, colon)]
        ELSE [scheme |-> <<>>, rest |-> url]

\* urlsplit, step 2: after "//" the netloc runs to the first of "/", "?", "#";
\* ok is FALSE where urlsplit raises ValueError("Invalid IPv6 URL")
SplitNetloc(url) ==
    IF Len(url) >= 2 /\ url[1] = "/" /\ url[2] = "/"
    THEN LET delims == {i \in 3..Len(url) : url[i] \in {"/", "?", "#"}}
             netEnd == IF delims = {} THEN Len(url) + 1
                       ELSE CHOOSE i \in delims : \A j \in delims : i <= j
             netloc == SubSeq(url, 3, netEnd - 1)
         IN  [netloc |-> netloc,
              rest |-> After(url, netEnd - 1),
              ok |-> (Find(netloc, "[") > 0) = (Find(netloc, "]") > 0)]
    ELSE [netloc |-> <<>>, rest |-> url, ok |-> TRUE]

\* urlsplit, step 3: the fragment is what follows the first "#"
SplitFragment(url) ==
    LET hash == Find(url, "#")
    IN  IF hash > 0 THEN [fragment |-> After(url, hash), rest |-> Before(url, hash)]
        ELSE [fragment |-> <<>>, rest |-> url]

\* urlsplit, step 4: the query is what follows the first "?"
SplitQuery(url) ==
    LET qmark == Find(url, "?")
    IN  IF qmark > 0 THEN [query |-> After(url, qmark), path |-> Before(url, qmark)]
        ELSE [query |-> <<>>, path |-> url]

\* urlparse(url): scheme, netloc, path, query and fragment of url
urlparse(url) ==
    Bind(LAMBDA a :
      Bind(LAMBDA b :
        Bind(LAMBDA c :
          Bind(LAMBDA d :
                 [ok |-> b.ok, scheme |-> a.scheme, netloc |-> b.netloc,
                  path |-> d.path, query |-> d.query, fragment |-> c.fragment],
               SplitQuery(c.rest)),
          SplitFragment(b.rest)),
        SplitNetloc(a.rest)),
      SplitScheme(url))

\* one piece of a query string: its <<name, value>> pair, or <<>> for a piece
\* parse_qsl skips (empty, without "=", or with a blank value)
PairOf(nv) ==
    LET eq == Find(nv, "=")
    IN  IF eq = 0 \/ eq = Len(nv) THEN <<>>
        ELSE <<unquote(PlusToSpace(Before(nv, eq))), unquote(PlusToSpace(After(nv, eq)))>>

\* parse_qsl(qs): the <<name, value>> pairs of qs in order
parse_qsl(qs) ==
    IF qs = <<>> THEN <<>>
    ELSE Bind(LAMBDA pieces :
                SelectSeq([i \in 1..Len(pieces) |-> PairOf(pieces[i])],
                          LAMBDA pair : pair # <<>>),
              Split(qs, "&"))

\* the values of the pairs named name, in order
ValuesOf(pairs, name) ==
    Bind(LAMBDA sel : [i \in 1..Len(sel) |-> sel[i][2]],
         SelectSeq(pairs, LAMBDA pair : pair[1] = name))

\* parse_qs(qs): the dict name -> list of values
parse_qs(qs) ==
    Bind(LAMBDA pairs :
            [n \in {pairs[i][1] : i \in 1..Len(pairs)} |-> ValuesOf(pairs, n)],
         parse_qsl(qs))

\* parse_callback_url(callback_url); ok is FALSE where urlparse raises
parse_callback_url(callback_url) ==
    Bind(LAMBDA parsed_path :
            [ok |-> parsed_path.ok,
             value |-> IF parsed_path.ok THEN parse_qs(parsed_path.query) ELSE <<>>],
         urlparse(callback_url))

(***************************************************************************)
(* Response.json(): a body is a sequence of tokens, a JSON object being    *)
(*   "{" key ":" value ("," key ":" value)* "}"  or  "{" "}"               *)
(***************************************************************************)

IsJsonObject(body) ==
    /\ Len(body) >= 2
    /\ body[1] = "{"
    /\ body[Len(body)] = "}"
    /\ LET inner == SubSeq(body, 2, Len(body) - 1)
           punct == {"{", "}", ":", ","}
       IN  \/ inner = <<>>
           \/ /\ Len(inner) % 4 = 3
              /\ \A i \in 1..Len(inner) :
                    CASE i % 4 = 1 -> inner[i] \notin punct
                      [] i % 4 = 2 -> inner[i] = ":"
                      [] i % 4 = 3 -> inner[i] \notin punct
                      [] OTHER     -> inner[i] = ","

\* the parsed object: key -> value, the last occurrence of a key winning
json_loads(body) ==
    LET inner == SubSeq(body, 2, Len(body) - 1)
        slots == {i \in 1..Len(inner) : i % 4 = 1}
        keys  == {inner[i] : i \in slots}
        last(k) == CHOOSE i \in slots :
                      inner[i] = k /\ \A j \in slots : inner[j] = k => j <= i
    IN  [k \in keys |-> inner[last(k) + 2]]

(***************************************************************************)
(* Constants of the flow                                                   *)
(***************************************************************************)

\* evesso/const.py: the provider's endpoints and the headers of the token request
AUTH_URL == <<"h", "t", "t", "p", "s", ":", "/", "/", "l", "o", "g", "i", "n", "/", "a", "u", "t", "h", "o", "r", "i", "z", "e">>
TOKEN_URL == "TOKEN_URL"
HEADERS == "HEADERS"

K_response_type == <<"r", "e", "s", "p", "o", "n", "s", "e", "_", "t", "y", "p", "e">>
K_redirect_uri == <<"r", "e", "d", "i", "r", "e", "c", "t", "_", "u", "r", "i">>
K_client_id == <<"c", "l", "i", "e", "n", "t", "_", "i", "d">>
K_scope == <<"s", "c", "o", "p", "e">>
K_code_challenge == <<"c", "o", "d", "e", "_", "c", "h", "a", "l", "l", "e", "n", "g", "e">>
K_code_challenge_method == <<"c", "o", "d", "e", "_", "c", "h", "a", "l", "l", "e", "n", "g", "e", "_", "m", "e", "t", "h", "o", "d">>
K_state == <<"s", "t", "a", "t", "e">>
K_code == <<"c", "o", "d", "e">>
V_code == <<"c", "o", "d", "e">>
V_S256 == <<"S", "2", "5", "6">>

(***************************************************************************)
(* Bounds and input domains                                                *)
(***************************************************************************)

\* calls of get_auth_jwt made by one process
MaxAttempts == 2

ClientIds == {<<"a", "p", "p">>, <<"i", "d", "&", "2">>}
Scopes == {<<"r", " ", "+", "%", "2", "0">>, <<>>}
RedirectUris == {<<"h", "t", "t", "p", "s", ":", "/", "/", "l", "o", "c", "a", "l", "h", "o", "s", "t", "/", "c", "a", "l", "l", "b", "a", "c", "k", "/">>}

Unset == <<"<unset>">>

Statuses == {200, 400, 503}
TokenBody == <<"{", "access_token", ":", "T", ",", "refresh_token", ":", "R", "}">>
ErrorBody == <<"{", "error", ":", "invalid_grant", "}">>
HtmlBody == <<"<html>">>
Bodies == {TokenBody, ErrorBody, HtmlBody}
Responses == [status : Statuses, body : Bodies]
NoResponse == [status |-> 0, body |-> <<>>]

CodeXYZ == <<"X", "Y", "Z">>
Other == <<"o", "t", "h", "e", "r">>
CallbackBase == <<"h", "t", "t", "p", "s", ":", "/", "/", "l", "o", "c", "a", "l", "h", "o", "s", "t", "/", "c", "a", "l", "l", "b", "a", "c", "k", "/">>

\* the redirect URLs the provider, the listener or the user may hand to the
\* flow in a process whose anti-forgery state is st
RedirectURLs(st) ==
    LET q(code_, state_) == K_code \o <<"=">> \o code_ \o <<"&">> \o K_state \o <<"=">> \o state_
    IN  { CallbackBase \o <<"?">> \o q(CodeXYZ, st),
          CallbackBase \o <<"?">> \o q(CodeXYZ, Other),
          CallbackBase \o <<"?">> \o q(CodeXYZ, SubSeq(st, 1, Len(st) - 1)),
          CallbackBase \o <<"?">> \o K_state \o <<"=">> \o st,
          CallbackBase \o <<"?">> \o K_code \o <<"=">> \o CodeXYZ,
          CallbackBase \o <<"?">> \o q(<<"a">>, Other) \o <<"&">> \o q(<<"b">>, st),
          CallbackBase \o <<"?">> \o q(<<"a">>, st) \o <<"&">> \o q(<<"b">>, Other),
          <<"h", "t", "t", "p", "s", ":", "/", "/", "[", "l", "o", "c", "a", "l", "h", "o", "s", "t", "/", "c", "a", "l", "l", "b", "a", "c", "k", "/">> \o <<"?">> \o q(CodeXYZ, st),
          CallbackBase \o <<"#", "?">> \o q(CodeXYZ, st),
          CallbackBase \o <<"?">> \o q(<<>>, st),
          CallbackBase \o <<"?">> \o q(<<"X", "%", "2", "6", "Y">>, st),
          q(CodeXYZ, st),
          CallbackBase \o <<"?">> \o q(<<>>, <<>>) \o <<"&">> \o q(<<"b">>, st) }

(***************************************************************************)
(* State                                                                   *)
(***************************************************************************)

VARIABLES
    STATE_TOKEN,    \* module global STATE (line 12; STATE is a reserved word)
    pc,             \* position of the running get_auth_jwt call
    attempts,       \* calls of get_auth_jwt started so far
    cli, client_id, scope, callback_url,    \* arguments of the call
    code_verifier, auth_url, callback, query_string, code, state, data,
    response, jwt,  \* locals of the call
    result,         \* value returned to the caller
    err,            \* exception propagated to the caller
    stdout,         \* text written to standard output by the call
    opened,         \* URLs handed to webbrowser.open by the call
    posted,         \* requests sent to the token endpoint by the call
    trace,          \* the external operations of the call, in order
    prev,           \* the other call of the process: a summary of the previous
                    \* one (paired runs), the frame of the suspended one
                    \* (interleaved runs)
    net             \* the local listener and the redirect the browser follows

vars == <<STATE_TOKEN, pc, attempts, cli, client_id, scope, callback_url,
          code_verifier, auth_url, callback, query_string, code, state, data,
          response, jwt, result, err, stdout, opened, posted, trace, prev, net>>

args == <<cli, client_id, scope, callback_url>>
io == <<stdout, opened, posted>>

NoError == [type |-> "none", msg |-> "", response |-> NoResponse]
Error(t, m) == [type |-> t, msg |-> m, response |-> NoResponse]

\* no listener bound, no redirect under way
NoNet == [listener |-> "closed", redirect |-> "none", captured |-> Unset]

NoPrev ==
    [valid |-> FALSE, cli |-> FALSE, client_id |-> Unset, callback |-> Unset,
     code_verifier |-> Unset, response |-> NoResponse, pc |-> "idle",
     query_string |-> <<>>, code |-> Unset, state |-> Unset, posted |-> <<>>,
     result |-> <<>>, err |-> NoError, trace |-> <<>>]

Summary ==
    [valid |-> TRUE, cli |-> cli, client_id |-> client_id, callback |-> callback,
     code_verifier |-> code_verifier, response |-> response, pc |-> pc,
     query_string |-> query_string, code |-> code, state |-> state,
     posted |-> posted, result |-> result, err |-> err, trace |-> trace]

Init ==
    /\ STATE_TOKEN \in token_urlsafe(DefaultLength)
    /\ pc = "idle"
    /\ attempts = 0
    /\ cli = FALSE
    /\ client_id = Unset
    /\ scope = Unset
    /\ callback_url = Unset
    /\ code_verifier = Unset
    /\ auth_url = Unset
    /\ callback = Unset
    /\ query_string = <<>>
    /\ code = Unset
    /\ state = Unset
    /\ data = <<>>
    /\ response = NoResponse
    /\ jwt = <<>>
    /\ result = <<>>
    /\ err = NoError
    /\ stdout = <<>>
    /\ opened = <<>>
    /\ posted = <<>>
    /\ trace = <<>>
    /\ prev = NoPrev
    /\ net = NoNet

(***************************************************************************)
(* build_auth_url and the pieces of get_auth_jwt                           *)
(***************************************************************************)

\* an authorization URL that carries the verifier itself as the challenge
build_auth_url_plain(cid, sc, cb, cv) ==
    LET query_dict ==
            << <<K_response_type, V_code>>,
               <<K_redirect_uri, cb>>,
               <<K_client_id, cid>>,
               <<K_scope, sc>>,
               <<K_code_challenge, cv>>,
               <<K_code_challenge_method, V_S256>>,
               <<K_state, STATE_TOKEN>> >>
    IN  AUTH_URL \o <<"?">> \o urlencode(query_dict)

\* build_auth_url(client_id, scope, callback_url, code_verifier)
build_auth_url(cid, sc, cb, cv) ==
    LET query_dict ==
            << <<K_response_type, V_code>>,
               <<K_redirect_uri, cb>>,
               <<K_client_id, cid>>,
               <<K_scope, sc>>,
               <<K_code_challenge, generate_challenge(cv)>>,
               <<K_code_challenge_method, V_S256>>,
               <<K_state, STATE_TOKEN>> >>
    IN  AUTH_URL \o <<"?">> \o urlencode(query_dict)

\* the text of the print call of the interactive variant
PrintedText(url) == <<"Open this url in a web browser:\n\n">> \o url \o <<"\n\n">>

\* the prompt input() writes before it reads
PromptText ==
    <<"Copy the callback URL from your web browser and paste it here, then press enter:\n">>

\* a lookup that falls back to a list holding one empty value
DictGetDefault(d, name) ==
    [present |-> TRUE,
     value |-> IF name \in DOMAIN d THEN d[name] ELSE <<<<>>>>]

\* query_string.get(name): present tells a list from None
DictGet(d, name) ==
    [present |-> name \in DOMAIN d,
     value |-> IF name \in DOMAIN d THEN d[name] ELSE <<>>]

\* a comparison that accepts any leading part of the expected value
StateMatchesPrefix(received, expected) ==
    Len(received) <= Len(expected) /\ received = SubSeq(expected, 1, Len(received))

\* the comparison `state == STATE`
StateMatches(received, expected) == received = expected

\* form fields that carry the challenge in place of the verifier
TokenDataHashed(cid, c, cv) ==
    [grant_type |-> "authorization_code", client_id |-> cid,
     code |-> c, code_verifier |-> generate_challenge(cv)]

\* the form fields of the token request
TokenData(cid, c, cv) ==
    [grant_type |-> "authorization_code", client_id |-> cid,
     code |-> c, code_verifier |-> cv]

\* a status check that lets client errors through
StatusRaisesServerOnly(status) == 500 <= status /\ status < 600

\* Response.raise_for_status raises for the statuses 400..599
StatusRaises(status) == 400 <= status /\ status < 600

Raise(e) ==
    /\ pc' = "raised"
    /\ err' = e

(***************************************************************************)
(* get_auth_jwt, one action per step                                       *)
(***************************************************************************)

\* the caller enters get_auth_jwt(client_id, scope, callback_url, cli)
Call(c, cid, sc, cb) ==
    /\ pc = "idle"
    /\ attempts < MaxAttempts
    /\ attempts' = attempts + 1
    /\ cli' = c
    /\ client_id' = cid
    /\ scope' = sc
    /\ callback_url' = cb
    /\ pc' = "generate"
    /\ UNCHANGED <<STATE_TOKEN, code_verifier, auth_url, callback, query_string,
                   code, state, data, response, jwt, result, err, io, trace, prev, net>>

\* the random source does not repeat the draw made for STATE at module load
Fresh(verifier) == RStrip(verifier, "=") # STATE_TOKEN

\* code_verifier = generate_byte_string()
Generate ==
    /\ pc = "generate"
    /\ code_verifier' \in generate_byte_string(DefaultLength)
    /\ Fresh(code_verifier')
    /\ pc' = "build"
    /\ UNCHANGED <<STATE_TOKEN, attempts, args, auth_url, callback, query_string,
                   code, state, data, response, jwt, result, err, io, trace, prev, net>>

\* a build step that draws a new anti-forgery state for every authorization URL
BuildFreshState ==
    /\ pc = "build"
    /\ STATE_TOKEN' \in token_urlsafe(DefaultLength) \ {STATE_TOKEN}
    /\ auth_url' = build_auth_url(client_id, scope, callback_url, code_verifier)
    /\ trace' = Append(trace, "build")
    /\ pc' = "acquire"
    /\ UNCHANGED <<attempts, args, code_verifier, callback, query_string,
                   code, state, data, response, jwt, result, err, io, prev, net>>

\* auth_url = build_auth_url(client_id, scope, callback_url, code_verifier)
Build ==
    /\ pc = "build"
    /\ auth_url' = build_auth_url(client_id, scope, callback_url, code_verifier)
    /\ trace' = Append(trace, "build")
    /\ pc' = "acquire"
    /\ UNCHANGED <<STATE_TOKEN, attempts, args, code_verifier, callback, query_string,
                   code, state, data, response, jwt, result, err, io, prev, net>>

\* cli: print the authorization URL
PrintUrl ==
    /\ pc = "acquire"
    /\ cli
    /\ stdout' = stdout \o PrintedText(auth_url)
    /\ trace' = Append(trace, "print")
    /\ pc' = "input"
    /\ UNCHANGED <<STATE_TOKEN, attempts, args, code_verifier, auth_url, callback,
                   query_string, code, state, data, response, jwt, result, err,
                   opened, posted, prev, net>>

\* cli: callback = input(prompt), the user pasting url
Input(url) ==
    /\ pc = "input"
    /\ stdout' = stdout \o PromptText
    /\ callback' = url
    /\ trace' = Append(trace, "input")
    /\ pc' = "parse"
    /\ UNCHANGED <<STATE_TOKEN, attempts, args, code_verifier, auth_url,
                   query_string, code, state, data, response, jwt, result, err,
                   opened, posted, prev, net>>

\* a browser step taken whatever the flag says
OpenBrowserAlways ==
    /\ pc = "acquire"
    /\ opened' = Append(opened, auth_url)
    /\ trace' = Append(trace, "open")
    /\ pc' = "listen"
    /\ UNCHANGED <<STATE_TOKEN, attempts, args, code_verifier, auth_url, callback,
                   query_string, code, state, data, response, jwt, result, err,
                   stdout, posted, prev, net>>

\* not cli: webbrowser.open(auth_url)
OpenBrowser ==
    /\ pc = "acquire"
    /\ ~cli
    /\ opened' = Append(opened, auth_url)
    /\ trace' = Append(trace, "open")
    /\ pc' = "listen"
    /\ UNCHANGED <<STATE_TOKEN, attempts, args, code_verifier, auth_url, callback,
                   query_string, code, state, data, response, jwt, result, err,
                   stdout, posted, prev, net>>

\* a wait for the listener that gives up: the URL arrives or the call fails
ListenTimeout(url) ==
    /\ pc = "listen"
    /\ \/ /\ callback' = url
          /\ pc' = "parse"
          /\ err' = err
       \/ /\ callback' = callback
          /\ Raise(Error("TimeoutError", ""))
    /\ trace' = Append(trace, "listen")
    /\ UNCHANGED <<STATE_TOKEN, attempts, args, code_verifier, auth_url,
                   query_string, code, state, data, response, jwt, result,
                   io, prev, net>>

\* not cli: callback = listen_for_callback(), the listener returning url
Listen(url) ==
    /\ pc = "listen"
    /\ callback' = url
    /\ trace' = Append(trace, "listen")
    /\ pc' = "parse"
    /\ UNCHANGED <<STATE_TOKEN, attempts, args, code_verifier, auth_url,
                   query_string, code, state, data, response, jwt, result, err,
                   io, prev, net>>

\* query_string = parse_callback_url(callback)
Parse ==
    /\ pc = "parse"
    /\ LET r == parse_callback_url(callback)
       IN  IF r.ok
           THEN /\ query_string' = r.value
                /\ pc' = "extract"
                /\ err' = err
           ELSE /\ Raise(Error("ValueError", "Invalid IPv6 URL"))
                /\ query_string' = query_string
    /\ trace' = Append(trace, "parse")
    /\ UNCHANGED <<STATE_TOKEN, attempts, args, code_verifier, auth_url, callback,
                   code, state, data, response, jwt, result, io, prev, net>>

\* code = query_string.get('code')[0]; state = query_string.get('state')[0]
Extract ==
    /\ pc = "extract"
    /\ LET c  == DictGet(query_string, K_code)
           st == DictGet(query_string, K_state)
           notSubscriptable ==
               Error("TypeError", "'NoneType' object is not subscriptable")
       IN  IF ~c.present
           THEN /\ Raise(notSubscriptable)
                /\ UNCHANGED <<code, state>>
           ELSE IF ~st.present
           THEN /\ Raise(notSubscriptable)
                /\ code' = c.value[1]
                /\ state' = state
           ELSE /\ code' = c.value[1]
                /\ state' = st.value[1]
                /\ pc' = "validate"
                /\ err' = err
    /\ UNCHANGED <<STATE_TOKEN, attempts, args, code_verifier, auth_url, callback,
                   query_string, data, response, jwt, result, io, trace, prev, net>>

\* a validation that asks for the redirect URL again after a mismatch
ValidateRetry ==
    /\ pc = "validate"
    /\ IF StateMatches(state, STATE_TOKEN) THEN pc' = "post" ELSE pc' = "acquire"
    /\ trace' = Append(trace, "validate")
    /\ UNCHANGED <<STATE_TOKEN, attempts, args, code_verifier, auth_url, callback,
                   query_string, code, state, data, response, jwt, result, err, io, prev, net>>

\* a validation that trusts a URL pasted by the user
ValidateTrustsPasted ==
    /\ pc = "validate"
    /\ IF cli \/ StateMatches(state, STATE_TOKEN)
       THEN /\ pc' = "post"
            /\ err' = err
       ELSE Raise(Error("ValueError", "Did not receive expected state"))
    /\ trace' = Append(trace, "validate")
    /\ UNCHANGED <<STATE_TOKEN, attempts, args, code_verifier, auth_url, callback,
                   query_string, code, state, data, response, jwt, result, io, prev, net>>

\* if not state == STATE: raise ValueError('Did not receive expected state')
Validate ==
    /\ pc = "validate"
    /\ IF StateMatches(state, STATE_TOKEN)
       THEN /\ pc' = "post"
            /\ err' = err
       ELSE Raise(Error("ValueError", "Did not receive expected state"))
    /\ trace' = Append(trace, "validate")
    /\ UNCHANGED <<STATE_TOKEN, attempts, args, code_verifier, auth_url, callback,
                   query_string, code, state, data, response, jwt, result, io, prev, net>>

\* data = {...}; requests.post(TOKEN_URL, data=data, headers=HEADERS): request sent
Post ==
    /\ pc = "post"
    /\ data' = TokenData(client_id, code, code_verifier)
    /\ posted' = Append(posted, [url |-> TOKEN_URL, data |-> data', headers |-> HEADERS])
    /\ trace' = Append(trace, "post")
    /\ pc' = "await"
    /\ UNCHANGED <<STATE_TOKEN, attempts, args, code_verifier, auth_url, callback,
                   query_string, code, state, response, jwt, result, err,
                   stdout, opened, prev, net>>

\* requests.post returns the response r of the token endpoint
Respond(r) ==
    /\ pc = "await"
    /\ response' = r
    /\ pc' = "status"
    /\ UNCHANGED <<STATE_TOKEN, attempts, args, code_verifier, auth_url, callback,
                   query_string, code, state, data, jwt, result, err, io, trace, prev, net>>

\* requests.post raises: no response arrives
ConnectionFails ==
    /\ pc = "await"
    /\ Raise(Error("ConnectionError", ""))
    /\ UNCHANGED <<STATE_TOKEN, attempts, args, code_verifier, auth_url, callback,
                   query_string, code, state, data, response, jwt, result,
                   io, trace, prev, net>>

\* response.raise_for_status()
RaiseForStatus ==
    /\ pc = "status"
    /\ IF StatusRaises(response.status)
       THEN Raise([type |-> "HTTPError", msg |-> "", response |-> response])
       ELSE /\ pc' = "json"
            /\ err' = err
    /\ UNCHANGED <<STATE_TOKEN, attempts, args, code_verifier, auth_url, callback,
                   query_string, code, state, data, response, jwt, result,
                   io, trace, prev, net>>

\* jwt = response.json()
Json ==
    /\ pc = "json"
    /\ IF IsJsonObject(response.body)
       THEN /\ jwt' = json_loads(response.body)
            /\ pc' = "return"
            /\ err' = err
       ELSE /\ Raise(Error("JSONDecodeError", ""))
            /\ jwt' = jwt
    /\ UNCHANGED <<STATE_TOKEN, attempts, args, code_verifier, auth_url, callback,
                   query_string, code, state, data, response, result,
                   io, trace, prev, net>>

\* a return that keeps the access token only
ReturnAccessTokenOnly ==
    /\ pc = "return"
    /\ result' = [k \in (DOMAIN jwt) \cap {"access_token"} |-> jwt[k]]
    /\ pc' = "returned"
    /\ UNCHANGED <<STATE_TOKEN, attempts, args, code_verifier, auth_url, callback,
                   query_string, code, state, data, response, jwt, err,
                   io, trace, prev, net>>

\* return jwt
Return ==
    /\ pc = "return"
    /\ result' = jwt
    /\ pc' = "returned"
    /\ UNCHANGED <<STATE_TOKEN, attempts, args, code_verifier, auth_url, callback,
                   query_string, code, state, data, response, jwt, err,
                   io, trace, prev, net>>

\* the call is over: its frame is dropped, the module global stays
Leave(p) ==
    /\ pc \in {"returned", "raised"}
    /\ pc' = "idle"
    /\ prev' = p
    /\ cli' = FALSE
    /\ client_id' = Unset
    /\ scope' = Unset
    /\ callback_url' = Unset
    /\ code_verifier' = Unset
    /\ auth_url' = Unset
    /\ callback' = Unset
    /\ query_string' = <<>>
    /\ code' = Unset
    /\ state' = Unset
    /\ data' = <<>>
    /\ response' = NoResponse
    /\ jwt' = <<>>
    /\ result' = <<>>
    /\ err' = NoError
    /\ stdout' = <<>>
    /\ opened' = <<>>
    /\ posted' = <<>>
    /\ trace' = <<>>
    /\ net' = NoNet
    /\ UNCHANGED <<STATE_TOKEN, attempts>>

\* the caller regains control and may call again
Restart == Leave(NoPrev)

Next ==
    \/ \E c \in BOOLEAN, cid \in ClientIds, sc \in Scopes, cb \in RedirectUris :
          Call(c, cid, sc, cb)
    \/ Generate
    \/ Build
    \/ PrintUrl
    \/ \E url \in RedirectURLs(STATE_TOKEN) : Input(url)
    \/ OpenBrowser
    \/ \E url \in RedirectURLs(STATE_TOKEN) : Listen(url)
    \/ Parse
    \/ Extract
    \/ Validate
    \/ Post
    \/ \E r \in Responses : Respond(r)
    \/ ConnectionFails
    \/ RaiseForStatus
    \/ Json
    \/ Return
    \/ Restart

Spec == Init /\ [][Next]_vars

(***************************************************************************)
(* Progress: every statement of the flow is executed once control reaches  *)
(* it; the assumptions are that whoever delivers the redirect URL (the     *)
(* user at the prompt, the listener) does deliver one, and that            *)
(* requests.post comes back, with a response or with an exception.         *)
(***************************************************************************)

\* the statements of get_auth_jwt that wait for nobody
Step ==
    \/ Generate \/ Build \/ PrintUrl \/ OpenBrowser \/ Parse \/ Extract
    \/ Validate \/ Post \/ RaiseForStatus \/ Json \/ Return

\* input() or listen_for_callback() comes back with a redirect URL
Acquire ==
    \/ \E url \in RedirectURLs(STATE_TOKEN) : Input(url)
    \/ \E url \in RedirectURLs(STATE_TOKEN) : Listen(url)

\* requests.post comes back
Answer ==
    \/ \E r \in Responses : Respond(r)
    \/ ConnectionFails

SpecLive ==
    /\ Init
    /\ [][Next]_vars
    /\ WF_vars(Step)
    /\ WF_vars(Acquire)
    /\ WF_vars(Answer)

(***************************************************************************)
(* Paired runs: one process calls get_auth_jwt twice, the second call with *)
(* the other value of cli and the same client_id, handed the same redirect *)
(* URL and the same answer of the token endpoint as the first.             *)
(***************************************************************************)

\* the first call is over and is remembered
Replay ==
    /\ prev = NoPrev
    /\ Leave(Summary)

NextPair ==
    \/ \E c \in BOOLEAN, cid \in ClientIds, sc \in Scopes, cb \in RedirectUris :
          /\ prev.valid => (c = ~prev.cli /\ cid = prev.client_id)
          /\ Call(c, cid, sc, cb)
    \/ Generate
    \/ Build
    \/ PrintUrl
    \/ \E url \in RedirectURLs(STATE_TOKEN) :
          /\ prev.valid => url = prev.callback
          /\ Input(url)
    \/ OpenBrowser
    \/ \E url \in RedirectURLs(STATE_TOKEN) :
          /\ prev.valid => url = prev.callback
          /\ Listen(url)
    \/ Parse
    \/ Extract
    \/ Validate
    \/ Post
    \/ \E r \in Responses :
          /\ prev.valid => r = prev.response
          /\ Respond(r)
    \/ /\ prev.valid => prev.err.type = "ConnectionError"
       /\ ConnectionFails
    \/ RaiseForStatus
    \/ Json
    \/ Return
    \/ Replay

SpecPair == Init /\ [][NextPair]_vars

(***************************************************************************)
(* Interleaved runs: two threads of one process call get_auth_jwt. Each    *)
(* has its own frame (arguments and locals); the module global STATE is    *)
(* shared. The variables hold the frame of the thread that runs, prev the  *)
(* frame of the thread that is suspended.                                  *)
(***************************************************************************)

\* the frame of the running call
Frame ==
    [valid |-> TRUE, pc |-> pc, cli |-> cli, client_id |-> client_id,
     scope |-> scope, callback_url |-> callback_url,
     code_verifier |-> code_verifier, auth_url |-> auth_url,
     callback |-> callback, query_string |-> query_string, code |-> code,
     state |-> state, data |-> data, response |-> response, jwt |-> jwt,
     result |-> result, err |-> err, stdout |-> stdout, opened |-> opened,
     posted |-> posted, trace |-> trace]

\* the frame of a thread that has not called yet
IdleFrame ==
    [valid |-> TRUE, pc |-> "idle", cli |-> FALSE, client_id |-> Unset,
     scope |-> Unset, callback_url |-> Unset, code_verifier |-> Unset,
     auth_url |-> Unset, callback |-> Unset, query_string |-> <<>>,
     code |-> Unset, state |-> Unset, data |-> <<>>, response |-> NoResponse,
     jwt |-> <<>>, result |-> <<>>, err |-> NoError, stdout |-> <<>>,
     opened |-> <<>>, posted |-> <<>>, trace |-> <<>>]

\* the scheduler suspends the running thread and resumes the other one
Switch ==
    LET f == IF prev.valid THEN prev ELSE IdleFrame
    IN  /\ prev' = Frame
        /\ pc' = f.pc
        /\ cli' = f.cli
        /\ client_id' = f.client_id
        /\ scope' = f.scope
        /\ callback_url' = f.callback_url
        /\ code_verifier' = f.code_verifier
        /\ auth_url' = f.auth_url
        /\ callback' = f.callback
        /\ query_string' = f.query_string
        /\ code' = f.code
        /\ state' = f.state
        /\ data' = f.data
        /\ response' = f.response
        /\ jwt' = f.jwt
        /\ result' = f.result
        /\ err' = f.err
        /\ stdout' = f.stdout
        /\ opened' = f.opened
        /\ posted' = f.posted
        /\ trace' = f.trace
        /\ UNCHANGED <<STATE_TOKEN, attempts, net>>

\* the running call is over; the other thread's frame stays
Exit == Leave(prev)

\* the inputs of the interleaved runs
TwoClientIds == {<<"a", "p", "p">>}
TwoScopes == {<<>>}
TwoRedirectURLs(st) ==
    {CallbackBase \o <<"?">> \o K_code \o <<"=">> \o CodeXYZ \o <<"&">> \o K_state \o <<"=">> \o s :
        s \in {st, Other}}
TwoResponses == {[status |-> 200, body |-> TokenBody]}

NextTwo ==
    \/ \E c \in BOOLEAN, cid \in TwoClientIds, sc \in TwoScopes, cb \in RedirectUris :
          Call(c, cid, sc, cb)
    \/ Generate
    \/ Build
    \/ PrintUrl
    \/ \E url \in TwoRedirectURLs(STATE_TOKEN) : Input(url)
    \/ OpenBrowser
    \/ \E url \in TwoRedirectURLs(STATE_TOKEN) : Listen(url)
    \/ Parse
    \/ Extract
    \/ Validate
    \/ Post
    \/ \E r \in TwoResponses : Respond(r)
    \/ RaiseForStatus
    \/ Json
    \/ Return
    \/ Exit
    \/ Switch

SpecTwo == Init /\ [][NextTwo]_vars

(***************************************************************************)
(* The automated variant with its collaborators: listen_for_callback binds *)
(* the local port when it is called, accepts one request, and returns the  *)
(* URL of that request; the browser, sent to the authorization URL, is     *)
(* redirected by the provider to the local port at a moment of its own.    *)
(***************************************************************************)

\* listen_for_callback() is entered: the port is bound and accepts a request
ListenStart ==
    /\ pc = "listen"
    /\ net.listener = "closed"
    /\ net' = [net EXCEPT !.listener = "accepting"]
    /\ UNCHANGED <<STATE_TOKEN, pc, attempts, args, code_verifier, auth_url,
                   callback, query_string, code, state, data, response, jwt,
                   result, err, io, trace, prev>>

\* the browser, redirected by the provider, requests url from the local port:
\* an accepting listener captures the request, otherwise it is refused
Redirect(url) ==
    /\ opened # <<>>
    /\ net.redirect = "none"
    /\ IF net.listener = "accepting"
       THEN net' = [listener |-> "captured", redirect |-> "captured", captured |-> url]
       ELSE net' = [net EXCEPT !.redirect = "refused"]
    /\ UNCHANGED <<STATE_TOKEN, pc, attempts, args, code_verifier, auth_url,
                   callback, query_string, code, state, data, response, jwt,
                   result, err, io, trace, prev>>

\* listen_for_callback() returns the captured URL and shuts the listener down
ListenReturn ==
    /\ pc = "listen"
    /\ net.listener = "captured"
    /\ callback' = net.captured
    /\ net' = [net EXCEPT !.listener = "shut"]
    /\ trace' = Append(trace, "listen")
    /\ pc' = "parse"
    /\ UNCHANGED <<STATE_TOKEN, attempts, args, code_verifier, auth_url,
                   query_string, code, state, data, response, jwt, result, err,
                   io, prev>>

NextNet ==
    \/ \E cid \in ClientIds, sc \in Scopes, cb \in RedirectUris :
          Call(FALSE, cid, sc, cb)
    \/ Generate
    \/ Build
    \/ OpenBrowser
    \/ ListenStart
    \/ \E url \in RedirectURLs(STATE_TOKEN) : Redirect(url)
    \/ ListenReturn
    \/ Parse
    \/ Extract
    \/ Validate
    \/ Post
    \/ \E r \in Responses : Respond(r)
    \/ ConnectionFails
    \/ RaiseForStatus
    \/ Json
    \/ Return
    \/ Restart

SpecNet == Init /\ [][NextNet]_vars

TypeOK ==
    /\ pc \in {"idle", "generate", "build", "acquire", "input", "listen", "parse",
               "extract", "validate", "post", "await", "status", "json", "return",
               "returned", "raised"}
    /\ attempts \in 0..MaxAttempts
    /\ cli \in BOOLEAN

(***************************************************************************)
(* Properties                                                              *)
(***************************************************************************)

Occurs(op) == \E i \in 1..Len(trace) : trace[i] = op
Precedes(a, b) ==
    \A j \in 1..Len(trace) : trace[j] = b => \E i \in 1..(j - 1) : trace[i] = a

\* the error the flow raises on a state mismatch (the spec's StateMismatchError)
StateMismatchError == Error("ValueError", "Did not receive expected state")

\* the first state value the parser finds in the acquired redirect URL
CallbackState == parse_callback_url(callback).value[K_state][1]

\* C1: once state validation has run on a callback whose state differs from the
\* expected anti-forgery state, the attempt has failed with the state-mismatch
\* error and has sent nothing to the token endpoint; every token request of an
\* attempt comes after a state comparison of that attempt that succeeded.
C1_MismatchNeverExchanges ==
    /\ (Occurs("validate") /\ CallbackState # STATE_TOKEN) =>
            /\ pc = "raised"
            /\ err = StateMismatchError
            /\ posted = <<>>
            /\ ~Occurs("post")
    /\ posted # <<>> =>
            /\ Occurs("validate")
            /\ Precedes("validate", "post")
            /\ CallbackState = STATE_TOKEN

\* C1 witness: validation has rejected a callback carrying a foreign state
C1_Witness ==
    /\ Occurs("validate")
    /\ CallbackState # STATE_TOKEN
    /\ pc = "raised"

\* the parameters of the authorization URL as the provider parses them
AuthParams == parse_qs(urlparse(auth_url).query)

\* C2: the anti-forgery state never changes after module load, over any number
\* of attempts, and the state parameter of every authorization URL built is
\* that one value, the value validation compares against.
C2_StateWrittenOnce ==
    /\ [][STATE_TOKEN' = STATE_TOKEN]_vars
    /\ [](auth_url # Unset =>
              /\ K_state \in DOMAIN AuthParams
              /\ AuthParams[K_state] = <<STATE_TOKEN>>)

\* C2 witness: a second attempt of the process has reached state validation
C2_Witness ==
    /\ attempts = 2
    /\ pc = "validate"
    /\ auth_url # Unset

\* C3: within an attempt the verifier is generated once and kept; the
\* authorization URL carries the challenge derived from it, and every token
\* request carries that verifier itself, never the challenge.
C3_PkceBinding ==
    /\ [][(code_verifier # Unset /\ pc' # "idle") => code_verifier' = code_verifier]_vars
    /\ []( /\ code_verifier # Unset =>
                 code_verifier \in generate_byte_string(DefaultLength)
           /\ auth_url # Unset =>
                 /\ K_code_challenge \in DOMAIN AuthParams
                 /\ AuthParams[K_code_challenge] = <<generate_challenge(code_verifier)>>
           /\ \A i \in 1..Len(posted) :
                 /\ posted[i].data.code_verifier = code_verifier
                 /\ posted[i].data.code_verifier # generate_challenge(code_verifier) )

\* C3 witness: a token request has been sent in an attempt that built its URL
C3_Witness ==
    /\ auth_url # Unset
    /\ Len(posted) = 1
    /\ posted[1].data.code_verifier = code_verifier

\* what the parser finds in the acquired redirect URL
CallbackQuery == parse_callback_url(callback)

\* the redirect URL parses and carries a code and the expected state
GoodCallback ==
    /\ callback # Unset
    /\ CallbackQuery.ok
    /\ K_code \in DOMAIN CallbackQuery.value
    /\ K_state \in DOMAIN CallbackQuery.value
    /\ CallbackQuery.value[K_state][1] = STATE_TOKEN

\* C4: when the redirect URL carries a code and the expected state and the
\* token endpoint answers with a success status and a JSON body, the finished
\* attempt has returned exactly the parsed body, after one token request that
\* carried the code of the redirect URL and the caller's client_id.
C4_EndToEndSuccess ==
    ( /\ pc \in {"returned", "raised"}
      /\ GoodCallback
      /\ response # NoResponse
      /\ ~(400 <= response.status /\ response.status < 600)
      /\ IsJsonObject(response.body) ) =>
        /\ pc = "returned"
        /\ result = json_loads(response.body)
        /\ Len(posted) = 1
        /\ posted[1].data.code = CallbackQuery.value[K_code][1]
        /\ posted[1].data.client_id = client_id
        /\ client_id \in ClientIds

\* C4 witness: an attempt has returned the token mapping of the response
C4_Witness ==
    /\ pc = "returned"
    /\ GoodCallback
    /\ response = [status |-> 200, body |-> TokenBody]

\* C5: when the token endpoint answers 4xx or 5xx, the attempt fails with the
\* HTTP error carrying that response (status and body), and nothing is returned.
C5_TokenExchangeFailure ==
    ( /\ response # NoResponse
      /\ 400 <= response.status /\ response.status < 600
      /\ pc # "status" ) =>
        /\ pc = "raised"
        /\ err.type = "HTTPError"
        /\ err.response = response
        /\ result = <<>>
        /\ jwt = <<>>

\* C5 witness: the endpoint has answered 400 with an error body
C5_Witness ==
    /\ pc = "raised"
    /\ response = [status |-> 400, body |-> ErrorBody]

\* the redirect URL is unparseable or its query lacks code or state
Malformed ==
    /\ callback # Unset
    /\ \/ ~CallbackQuery.ok
       \/ K_code \notin DOMAIN CallbackQuery.value
       \/ K_state \notin DOMAIN CallbackQuery.value

\* parsing and extraction of the acquired redirect URL are over
Extracted == callback # Unset /\ pc \notin {"parse", "extract"}

NotSubscriptable == Error("TypeError", "'NoneType' object is not subscriptable")
InvalidUrl == Error("ValueError", "Invalid IPv6 URL")

Count(op) == Cardinality({i \in 1..Len(trace) : trace[i] = op})

\* the stages of one call, in program order
Rank(p) ==
    CASE p = "idle" -> 0 [] p = "generate" -> 1 [] p = "build" -> 2
      [] p = "acquire" -> 3 [] p = "input" -> 4 [] p = "listen" -> 4
      [] p = "parse" -> 5 [] p = "extract" -> 6 [] p = "validate" -> 7
      [] p = "post" -> 8 [] p = "await" -> 9 [] p = "status" -> 10
      [] p = "json" -> 11 [] p = "return" -> 12
      [] p = "returned" -> 13 [] p = "raised" -> 13

\* C7: one attempt acquires at most one redirect URL and sends at most one
\* token request; no stage is entered twice; a failed attempt holds its error
\* for the caller and takes no further step of the flow.
C7_NoRetry ==
    /\ []( /\ Count("input") + Count("listen") <= 1
           /\ Count("parse") <= 1
           /\ Count("validate") <= 1
           /\ Count("post") <= 1
           /\ Len(posted) <= 1
           /\ pc = "raised" => err # NoError
           /\ pc # "raised" => err = NoError )
    /\ [][ /\ pc = "raised" => pc' = "idle"
           /\ pc' # "idle" => Rank(pc') > Rank(pc) ]_vars

\* C7 witness: an attempt has failed at the token exchange
C7_Witness ==
    /\ pc = "raised"
    /\ Count("post") = 1
    /\ err.type = "HTTPError"

\* a token request without its verifier
Unverified(request) == [request EXCEPT !.data.code_verifier = Unset]

\* C8: two attempts of one process that differ in cli and agree on client_id,
\* redirect URL and the token endpoint's answer have the same parse result,
\* the same validation, the same token request (up to the verifier, which is
\* drawn anew) and the same outcome.
C8_VariantsConverge ==
    ( /\ prev.valid
      /\ cli # prev.cli
      /\ client_id = prev.client_id
      /\ callback = prev.callback ) =>
        /\ Occurs("parse") => query_string = prev.query_string
        /\ Extracted => (code = prev.code /\ state = prev.state)
        /\ Occurs("validate") => \E i \in 1..Len(prev.trace) : prev.trace[i] = "validate"
        /\ Len(posted) <= Len(prev.posted)
        /\ \A i \in 1..Len(posted) : Unverified(posted[i]) = Unverified(prev.posted[i])
        /\ code_verifier = prev.code_verifier => \A i \in 1..Len(posted) : posted[i] = prev.posted[i]
        /\ (pc = "raised" /\ ~Occurs("post")) => (prev.pc = "raised" /\ err = prev.err)
        /\ ( /\ pc \in {"returned", "raised"}
             /\ response = prev.response
             /\ (err.type = "ConnectionError") = (prev.err.type = "ConnectionError") ) =>
                /\ Len(posted) = Len(prev.posted)
                /\ pc = prev.pc
                /\ err = prev.err
                /\ result = prev.result

\* C8 witness: both variants have rejected the same redirect URL
C8_Witness ==
    /\ prev.valid
    /\ cli # prev.cli
    /\ callback = prev.callback
    /\ pc = "raised"
    /\ err = StateMismatchError

\* C9: the interactive variant prints the URL, then reads one line, and never
\* opens the browser or listens; the automated variant opens the browser, then
\* listens, and never prints or prompts; the URL is built before either, and
\* parsing starts only after the redirect URL has been obtained.
C9_VariantOrdering ==
    /\ (pc # "idle" /\ cli) =>
          /\ opened = <<>>
          /\ Count("open") = 0 /\ Count("listen") = 0
          /\ Count("print") <= 1 /\ Count("input") <= 1
          /\ Precedes("print", "input")
          /\ Occurs("print") => Contains(stdout, auth_url)
          /\ Occurs("parse") => Occurs("input")
    /\ (pc # "idle" /\ ~cli) =>
          /\ stdout = <<>>
          /\ Count("print") = 0 /\ Count("input") = 0
          /\ Count("open") <= 1 /\ Count("listen") <= 1
          /\ Precedes("open", "listen")
          /\ Occurs("open") => opened = <<auth_url>>
          /\ Occurs("parse") => Occurs("listen")
    /\ Precedes("build", "print")
    /\ Precedes("build", "open")
    /\ Precedes("input", "parse") \/ Precedes("listen", "parse")

\* C9 witness: the automated variant has started to parse
C9_Witness ==
    /\ ~cli
    /\ Len(trace) >= 4
    /\ SubSeq(trace, 1, 4) = <<"build", "open", "listen", "parse">>

\* text carries the verifier: as it is, percent-encoded, or without padding
Leaks(text) ==
    \/ Contains(text, code_verifier)
    \/ Contains(text, quote_plus(code_verifier))
    \/ Contains(text, RStrip(code_verifier, "="))

\* C10: the verifier of an attempt appears in no authorization URL, in no
\* printed text and in no URL handed to the browser; those carry its challenge
\* only; it leaves the flow in the code_verifier field of the token request.
C10_VerifierConfidential ==
    code_verifier # Unset =>
        /\ auth_url # Unset =>
              /\ ~Leaks(auth_url)
              /\ Bind(LAMBDA pairs :
                         \A i \in 1..Len(pairs) : pairs[i][2] # code_verifier,
                      parse_qsl(urlparse(auth_url).query))
              /\ Contains(auth_url, generate_challenge(code_verifier))
        /\ ~Leaks(stdout)
        /\ \A i \in 1..Len(opened) : ~Leaks(opened[i])
        /\ \A i \in 1..Len(posted) :
              /\ posted[i].url = TOKEN_URL
              /\ posted[i].data.code_verifier = code_verifier
              /\ posted[i].data.code # code_verifier
              /\ posted[i].data.client_id # code_verifier

\* C10 witness: an interactive attempt has printed its URL and sent the token request
C10_Witness ==
    /\ cli
    /\ Contains(stdout, auth_url)
    /\ Len(posted) = 1

\* the query component of url: what follows the first "?" of the part before
\* the first "#"
QueryComponent(url) ==
    LET hash == Find(url, "#")
        head == IF hash > 0 THEN Before(url, hash) ELSE url
        qmark == Find(head, "?")
    IN  IF qmark > 0 THEN After(head, qmark) ELSE <<>>

\* every parameter of the query string qs with every one of its values, in
\* order of appearance: each non-empty piece is a parameter, its value what
\* follows the first "=" (blank when nothing does). This is the reading of a
\* query that keeps blank values; parse_qsl above is the one the code calls.
AllPairs(qs) ==
    IF qs = <<>> THEN <<>>
    ELSE Bind(LAMBDA pieces :
                Bind(LAMBDA kept :
                        [i \in 1..Len(kept) |->
                            LET eq == Find(kept[i], "=")
                            IN  IF eq = 0
                                THEN <<unquote(PlusToSpace(kept[i])), <<>>>>
                                ELSE <<unquote(PlusToSpace(Before(kept[i], eq))),
                                       unquote(PlusToSpace(After(kept[i], eq)))>>],
                     SelectSeq(pieces, LAMBDA piece : piece # <<>>)),
              Split(qs, "&"))

\* the mapping name -> list of all its values
AllValues(qs) ==
    Bind(LAMBDA pairs :
            [n \in {pairs[i][1] : i \in 1..Len(pairs)} |-> ValuesOf(pairs, n)],
         AllPairs(qs))

\* C11: once parse_callback_url has parsed the redirect URL, its result maps
\* every parameter name of the URL's query component (and of nothing else) to
\* the list of all the values the parameter has there, in order of appearance.
C11_AllValuesKept ==
    (Occurs("parse") /\ err # InvalidUrl) =>
        query_string = AllValues(QueryComponent(callback))

\* C12: the query component of the authorization URL built, parsed into all
\* its parameters, has exactly seven parameters with one value each:
\* client_id, scope and redirect_uri as passed by the caller, state the
\* anti-forgery state, code_challenge the challenge of the verifier,
\* code_challenge_method S256 and response_type code; the part before the
\* query is the authorization endpoint.
C12_AuthUrlRoundTrip ==
    auth_url # Unset =>
        /\ Before(auth_url, Find(auth_url, "?")) = AUTH_URL
        /\ Len(AllPairs(QueryComponent(auth_url))) = 7
        /\ Bind(LAMBDA p :
                  /\ DOMAIN p = {K_response_type, K_redirect_uri, K_client_id, K_scope,
                                 K_code_challenge, K_code_challenge_method, K_state}
                  /\ p[K_client_id] = <<client_id>>
                  /\ p[K_scope] = <<scope>>
                  /\ p[K_redirect_uri] = <<callback_url>>
                  /\ p[K_state] = <<STATE_TOKEN>>
                  /\ p[K_code_challenge] = <<generate_challenge(code_verifier)>>
                  /\ p[K_code_challenge_method] = <<V_S256>>
                  /\ p[K_response_type] = <<V_code>>,
                AllValues(QueryComponent(auth_url)))

\* C12 witness: a URL has been built from a client_id and a scope that hold
\* characters the query encoding has to escape
C12_Witness ==
    /\ auth_url # Unset
    /\ Find(client_id, "&") > 0
    /\ Find(scope, "%") > 0
    /\ Find(scope, " ") > 0

\* the challenge the authorization URL carries
UrlChallenge == AllValues(QueryComponent(auth_url))[K_code_challenge][1]

\* the characters of the URL-safe base64 alphabet
UrlSafeChars == {B64Alphabet[i] : i \in 1..64}

\* C13: the verifier is the padded base64 text of the 32 random bytes (44
\* characters, the last one "=") and reaches the token request as it is; the
\* challenge in the authorization URL is 43 characters of the URL-safe
\* alphabet (no "=", "+" or "/"), is the padding-free base64 text of the
\* SHA-256 digest of the verifier as transmitted, and is what a second
\* computation on the verifier of the token request gives; building the URL
\* changes nothing but the URL.
C13_ChallengeDerivation ==
    /\ [][pc = "build" =>
            UNCHANGED <<STATE_TOKEN, attempts, args, code_verifier, callback,
                        query_string, code, state, data, response, jwt, result,
                        err, io, prev, net>>]_vars
    /\ []( /\ code_verifier # Unset =>
                 /\ Len(code_verifier) = 4 * ((DefaultLength + 2) \div 3)
                 /\ code_verifier[Len(code_verifier)] = "="
                 /\ \A i \in 1..(Len(code_verifier) - 1) : code_verifier[i] \in UrlSafeChars
           /\ auth_url # Unset =>
                 Bind(LAMBDA ch :
                        /\ Len(ch) = 43
                        /\ \A i \in 1..Len(ch) : ch[i] \in UrlSafeChars \ {"=", "+", "/"}
                        /\ ch = RStrip(urlsafe_b64encode(sha256(code_verifier)), "=")
                        /\ \A i \in 1..Len(posted) :
                              /\ posted[i].data.code_verifier = code_verifier
                              /\ generate_challenge(posted[i].data.code_verifier) = ch,
                      UrlChallenge) )

\* C13 witness: the padded verifier has been sent to the token endpoint by an
\* attempt whose URL carries the challenge
C13_Witness ==
    /\ auth_url # Unset
    /\ Len(posted) = 1
    /\ posted[1].data.code_verifier[44] = "="
    /\ Len(UrlChallenge) = 43

\* the call is waiting for its redirect URL
Blocked == pc \in {"input", "listen"}

\* the call is over
Terminated == pc \in {"returned", "raised"}

\* C14: a call that waits for its redirect URL leaves the wait in one way
\* only, with a URL delivered to it (no timeout, no error of its own); when
\* URLs are delivered and token requests are answered, every call that has
\* started ends, having returned the parsed response or raised an error.
C14_BlocksThenTerminates ==
    /\ [][Blocked =>
            /\ pc' = "parse"
            /\ callback' \in RedirectURLs(STATE_TOKEN)
            /\ err' = NoError]_vars
    /\ (pc # "idle") ~> Terminated
    /\ [](Terminated =>
            \/ pc = "returned" /\ err = NoError /\ result = jwt /\ Occurs("post")
            \/ pc = "raised" /\ err # NoError /\ result = <<>>)

\* C14 witness: a call of the automated variant that waited for the listener
\* has returned
C14_Witness ==
    /\ pc = "returned"
    /\ ~cli
    /\ Occurs("listen")
    /\ result # <<>>

\* all the values the redirect URL gives to the parameter name
CallbackValues(name) ==
    Bind(LAMBDA p : IF name \in DOMAIN p THEN p[name] ELSE <<>>,
         AllValues(QueryComponent(callback)))

\* the redirect URL gives a state and a code and repeats one of them
Repeats ==
    /\ CallbackValues(K_state) # <<>>
    /\ CallbackValues(K_code) # <<>>
    /\ Len(CallbackValues(K_state)) > 1 \/ Len(CallbackValues(K_code)) > 1

\* C15: when the redirect URL repeats state or code, state validation passes
\* exactly when the first state value of the URL is the expected state, and
\* the code of every token request is the first code value of the URL.
C15_FirstValueOnly ==
    (Occurs("validate") /\ Repeats) =>
        /\ (err # StateMismatchError) <=> (CallbackValues(K_state)[1] = STATE_TOKEN)
        /\ \A i \in 1..Len(posted) : posted[i].data.code = CallbackValues(K_code)[1]

\* the state parameter of an authorization URL
UrlState(url) == AllValues(QueryComponent(url))[K_state]

\* a call has passed state validation (f is a frame)
Passed(f) ==
    /\ \E i \in 1..Len(f.trace) : f.trace[i] = "validate"
    /\ f.err # StateMismatchError

\* a call has failed state validation (f is a frame)
Rejected(f) ==
    /\ \E i \in 1..Len(f.trace) : f.trace[i] = "validate"
    /\ f.err = StateMismatchError

\* C16: of two calls of one process, in any interleaving, both embed the
\* module's one state value in their authorization URLs; handed the same
\* redirect URL, one passes state validation exactly when the other does; and
\* each sends in its token request the code of that redirect URL with the
\* verifier of its own.
C16_AttemptsShareState ==
    prev.valid =>
        /\ auth_url # Unset => UrlState(auth_url) = <<STATE_TOKEN>>
        /\ prev.auth_url # Unset => UrlState(prev.auth_url) = <<STATE_TOKEN>>
        /\ (callback # Unset /\ callback = prev.callback) =>
              /\ ~(Passed(Frame) /\ Rejected(prev))
              /\ ~(Rejected(Frame) /\ Passed(prev))
              /\ \A i \in 1..Len(posted), j \in 1..Len(prev.posted) :
                    posted[i].data.code = prev.posted[j].data.code
        /\ \A i \in 1..Len(posted) :
              /\ Passed(Frame)
              /\ posted[i].data.code = parse_callback_url(callback).value[K_code][1]
              /\ posted[i].data.code_verifier = code_verifier
        /\ \A j \in 1..Len(prev.posted) :
              /\ Passed(prev)
              /\ prev.posted[j].data.code = parse_callback_url(prev.callback).value[K_code][1]
              /\ prev.posted[j].data.code_verifier = prev.code_verifier

\* C16 witness: two calls in flight at once have been handed the same redirect
\* URL, and each has sent its code with a verifier of its own
C16_Witness ==
    /\ prev.valid
    /\ pc = "await"
    /\ prev.pc = "await"
    /\ callback = prev.callback
    /\ code_verifier # prev.code_verifier
    /\ posted[1].data.code = prev.posted[1].data.code
    /\ posted[1].data.code_verifier # prev.posted[1].data.code_verifier

\* C17: in the automated variant no redirect is lost: the redirect set off by
\* opening the authorization URL is never refused by the local port, and the
\* URL the flow goes on with is the URL of that redirect.
C17_NoRedirectLost ==
    ~cli =>
        /\ net.redirect # "refused"
        /\ Occurs("listen") => (net.redirect = "captured" /\ callback = net.captured)

====
